---- MODULE Spec2Model ----
(***************************************************************************)
(* Recipes API: the recipes service (list with a single-slot page cache,   *)
(* lookups, create / update / remove against the document store and the    *)
(* image store) and the pagination helper.                                 *)
(*                                                                         *)
(* A request is a process that runs its handler from one await to the      *)
(* next.  Synchronous blocks that read or write the service's cacheKey     *)
(* field are steps of their own; every other step is one awaited call      *)
(* together with the synchronous code that follows it.                     *)
(*                                                                         *)
(* Spec serves the requests one at a time (SeqProcs); the save() that       *)
(* create does not await settles at any later moment, and its rejection,   *)
(* which nothing handles, ends the server process.  ConcSpec lets the      *)
(* list and write handlers of two requests overlap.  A recipe carries      *)
(* the fields the handlers act on (name, category, image, public_id,       *)
(* createdAt); description, ingredients, steps and country ride along and  *)
(* are left out.                                                           *)
(***************************************************************************)
EXTENDS Integers, Sequences, FiniteSets, TLC

(* ------------------------------ bounds --------------------------------- *)
MaxDocs == 2      \* recipes ever created, the ones in the store at start included
MaxUploads == 3   \* uploads the image store ever accepts
MaxCalls == 4     \* findAll, create, update and remove calls in one behaviour
MaxPage == 2
MaxLimit == 2
MaxItems == 3     \* totalItems handed to paginateResults
MaxConcCalls == 3 \* calls in one behaviour when requests overlap

(* ------------------------------ inputs --------------------------------- *)
Procs == {"r1", "r2"}
SeqProcs == {"r1"}
\* ParseIntPipe lets any integer through; limit 0 reaches find() as "no limit"
Pages == 0..MaxPage
Limits == 0..MaxLimit
Ids == 1..(MaxDocs + 1)
Cats == {"c1", "c2"}
CatIds == Cats \cup {"c9"}
CreateDtos ==
  { [name |-> <<"T", "a">>, category |-> "c1"],
    [name |-> <<"a", "t">>, category |-> "c2"] }
UpdateDtos == { [name |-> <<"a", "t">>], [category |-> "c2"] }
Patterns == { <<"A">>, <<"t", "A">>, <<"x">> }

VARIABLES
  docs,        \* the recipes collection of the document store
  images,      \* asset ids held by the image store
  uploads,     \* number of uploads the image store has accepted
  cache,       \* the cache store: key -> payload
  cacheKey,    \* RecipesService.cacheKey
  saves,       \* newRecipe.save() calls: id -> [doc, status, reply]
  req,         \* per request: position in its handler, arguments, locals
  calls,       \* number of findAll, create, update and remove calls so far
  lastListed,  \* history: key of the most recent findAll call
  lastServed,  \* history: key of the most recent findAll that returned a payload
  served       \* history: payloads returned by findAll since the last write call

vars == <<docs, images, uploads, cache, cacheKey, saves, req, calls,
          lastListed, lastServed, served>>

(* --------------------------- JS values --------------------------------- *)
\* Numbers that may be non-finite (Math.ceil of a division).
Fin(n) == <<"fin", n>>
Infinity == <<"inf", 0>>
NaN == <<"nan", 0>>
Undefined == <<"undefined">>

\* variant: the quotient rounded down
MathFloorDiv(totalItems, limit) ==
  IF limit > 0 THEN Fin(totalItems \div limit)
  ELSE IF limit = 0 THEN (IF totalItems = 0 THEN NaN ELSE Infinity)
  ELSE Fin(-(totalItems \div (-limit)))

\* Math.ceil(totalItems / limit) for totalItems >= 0.
MathCeilDiv(totalItems, limit) ==
  IF limit > 0 THEN Fin((totalItems + limit - 1) \div limit)
  ELSE IF limit = 0 THEN (IF totalItems = 0 THEN NaN ELSE Infinity)
  ELSE Fin(-(totalItems \div (-limit)))

\* page > totalPages; a comparison with Infinity or NaN on the right is false here.
GreaterThan(page, totalPages) == totalPages[1] = "fin" /\ page > totalPages[2]

HttpException(message, status) ==
  [kind |-> "throw", status |-> status, message |-> message]
Returned(value) == [kind |-> "return", value |-> value]
Rejected(cause) == [kind |-> "reject", cause |-> cause]
NoResult == [kind |-> "none"]
NOT_FOUND == 404
INTERNAL_SERVER_ERROR == 500

(* ------------------------ pagination helper ---------------------------- *)
paginateResults(totalItems, page, limit) ==
  LET totalPages == MathCeilDiv(totalItems, limit) IN
  IF page < 1 \/ GreaterThan(page, totalPages)
  THEN HttpException("Página no encontrada", NOT_FOUND)
  ELSE Returned([totalItems |-> totalItems, totalPages |-> totalPages,
                 currentPage |-> page])

(* --------------------------- cache store ------------------------------- *)
generateCacheKey(page, limit) ==
  "recipes_list_page_" \o ToString(page) \o "_" \o ToString(limit)

\* cacheManager.get: the entry, or nothing (modelled as a set of at most one).
CacheGet(c, key) == IF key \in DOMAIN c THEN {c[key]} ELSE {}
CacheSet(c, key, value) ==
  [k \in DOMAIN c \cup {key} |-> IF k = key THEN value ELSE c[k]]
CacheDel(c, key) == [k \in DOMAIN c \ {key} |-> c[k]]

\* variant: the whole cache is dropped
deleteCacheByKey_All(c, key) == [k \in {} |-> 0]

\* lines 24-26: RecipesService.deleteCacheByKey
deleteCacheByKey(c, key) == CacheDel(c, key)

(* -------------------------- document store ----------------------------- *)
CategoryDoc(c) == [_id |-> c, name |-> IF c = "c1" THEN "Sopas" ELSE "Postres"]

\* populate('category', '-public_id') and select('-public_id')
Populated(d) ==
  [f \in DOMAIN d \ {"public_id"} |->
     IF f = "category" THEN CategoryDoc(d[f]) ELSE d[f]]

RECURSIVE SortCreatedAtDesc(_)
SortCreatedAtDesc(S) ==
  IF S = {} THEN <<>>
  ELSE LET d == CHOOSE x \in S : \A y \in S : y.createdAt <= x.createdAt
       IN <<d>> \o SortCreatedAtDesc(S \ {d})

\* skip(n).limit(m) on an ordered result; limit(0) is no limit
SkipLimit(s, skip, limit) ==
  LET last == IF limit = 0 \/ skip + limit > Len(s) THEN Len(s) ELSE skip + limit
  IN SubSeq(s, skip + 1, last)

\* the projection applied to each document of a query result
PopulatedAll(s) == [i \in 1..Len(s) |-> Populated(s[i])]

FindById(D, id) == {d \in D : d._id = id}

Lower(ch) == IF ch = "A" THEN "a" ELSE IF ch = "T" THEN "t" ELSE ch
\* { $regex: pattern, $options: 'i' } for a literal pattern
RegexMatchI(pattern, name) ==
  \E i \in 0..(Len(name) - Len(pattern)) :
    \A j \in 1..Len(pattern) : Lower(name[i + j]) = Lower(pattern[j])

\* the orders in which an unsorted query may return the documents of S
Orders(S) ==
  {s \in [1..Cardinality(S) -> S] : \A i, j \in DOMAIN s : i # j => s[i] # s[j]}

(* ---------------------------- image store ------------------------------ *)
\* uploadImage(path, 'recipes'): the response for the n-th accepted upload
UploadResponse(n) == [secure_url |-> <<"https://img", n>>, public_id |-> n]

Idle == [pc |-> "idle", op |-> "none", result |-> NoResult]
\* the process has exited: no handler runs and no request is accepted
Exited == [pc |-> "exited", op |-> "none", result |-> NoResult]
EmptyMap == [k \in {} |-> 0]

(* ------------------------- request plumbing ---------------------------- *)
Goto(p, r) == req' = [req EXCEPT ![p] = r]
At(p, op, pc) == req[p].op = op /\ req[p].pc = pc
Finish(r, result) == [r EXCEPT !.pc = "done", !.result = result]
CreateUpdateRemove == {"create", "update", "remove"}

\* the server process is alive
Running == \A q \in Procs : req[q].pc # "exited"

\* the store, the images, the cache and the tracked key are left alone
NoEffect == UNCHANGED <<docs, images, uploads, cache, cacheKey, saves>>
Counted == calls < MaxCalls /\ calls' = calls + 1
NoHistory == UNCHANGED <<lastListed, lastServed, served>>

(* ------------------------------ findAll -------------------------------- *)
\* line 37: the key is tracked before anything is validated; line 39 issues get
FindAllCall(p, page, limit) ==
  /\ req[p].pc = "idle"
  /\ Counted
  /\ cacheKey' = generateCacheKey(page, limit)
  /\ Goto(p, [pc |-> "fa_get", op |-> "findAll", page |-> page, limit |-> limit,
              key |-> generateCacheKey(page, limit), cacheData |-> {},
              totalRecipes |-> 0, recipes |-> <<>>, result |-> NoResult])
  /\ lastListed' = generateCacheKey(page, limit)
  /\ UNCHANGED <<docs, images, uploads, cache, saves, lastServed, served>>

\* line 39: cacheManager.get
FindAllGet(p) ==
  /\ At(p, "findAll", "fa_get")
  /\ UNCHANGED calls
  /\ Goto(p, [req[p] EXCEPT !.pc = "fa_count",
                            !.cacheData = CacheGet(cache, req[p].key)])
  /\ NoEffect /\ NoHistory

\* variant: a cache hit is returned before the page is validated
FindAllValidate_HitFirst(r, totalRecipes) ==
  LET totalPages == MathCeilDiv(totalRecipes, r.limit) IN
  IF r.cacheData # {}
  THEN [r EXCEPT !.pc = "done", !.result = Returned(CHOOSE x \in r.cacheData : TRUE)]
  ELSE IF r.page < 1 \/ GreaterThan(r.page, totalPages)
  THEN [r EXCEPT !.pc = "done",
                 !.result = HttpException("Página no encontrada", NOT_FOUND)]
  ELSE [r EXCEPT !.pc = "fa_find"]

\* variant: the cached entry is never used
FindAllValidate_NoCache(r, totalRecipes) ==
  LET totalPages == MathCeilDiv(totalRecipes, r.limit) IN
  IF r.page < 1 \/ GreaterThan(r.page, totalPages)
  THEN [r EXCEPT !.pc = "done",
                 !.result = HttpException("Página no encontrada", NOT_FOUND)]
  ELSE [r EXCEPT !.pc = "fa_find"]

\* lines 43-47 and 49, 74: what findAll does once the count is known
FindAllValidate(r, totalRecipes) ==
  LET totalPages == MathCeilDiv(totalRecipes, r.limit) IN
  IF r.page < 1 \/ GreaterThan(r.page, totalPages)
  THEN Finish(r, HttpException("Página no encontrada", NOT_FOUND))
  ELSE IF r.cacheData = {}
  THEN [r EXCEPT !.pc = "fa_find"]
  ELSE Finish(r, Returned(CHOOSE x \in r.cacheData : TRUE))

\* line 41: countDocuments, then the validation
FindAllCount(p) ==
  /\ At(p, "findAll", "fa_count")
  /\ UNCHANGED calls
  /\ LET n == Cardinality(docs)
         r == FindAllValidate([req[p] EXCEPT !.totalRecipes = n], n)
     IN /\ Goto(p, r)
        /\ lastServed' = IF r.result.kind = "return" THEN r.key ELSE lastServed
  /\ NoEffect /\ UNCHANGED <<lastListed, served>>

\* lines 50-56: find().skip().limit().populate().select().sort({createdAt: -1})
FindPage(D, page, limit) ==
  PopulatedAll(SkipLimit(SortCreatedAtDesc(D), (page - 1) * limit, limit))

FindAllFind(p) ==
  /\ At(p, "findAll", "fa_find")
  /\ UNCHANGED calls
  /\ Goto(p, [req[p] EXCEPT !.pc = "fa_setcall",
                            !.recipes = FindPage(docs, req[p].page, req[p].limit)])
  /\ NoEffect /\ NoHistory

recipePageData(r) ==
  [page |-> r.page, totalPages |-> MathCeilDiv(r.totalRecipes, r.limit),
   totalRecipes |-> r.totalRecipes, data |-> r.recipes]

\* line 64: the key handed to set is this.cacheKey as it is now
FindAllSetCall(p) ==
  /\ At(p, "findAll", "fa_setcall")
  /\ UNCHANGED calls
  /\ Goto(p, [req[p] EXCEPT !.pc = "fa_set", !.key = cacheKey])
  /\ NoEffect /\ NoHistory

\* line 64: cacheManager.set, then lines 66-71
FindAllSet(p) ==
  /\ At(p, "findAll", "fa_set")
  /\ UNCHANGED calls
  /\ cache' = CacheSet(cache, req[p].key, recipePageData(req[p]))
  /\ Goto(p, Finish(req[p], Returned(recipePageData(req[p]))))
  /\ lastServed' = generateCacheKey(req[p].page, req[p].limit)
  /\ UNCHANGED <<docs, images, uploads, cacheKey, saves, lastListed, served>>

\* the response leaves the service
Respond(p) ==
  /\ req[p].pc = "done"
  /\ UNCHANGED calls
  /\ served' = IF req[p].op = "findAll" /\ req[p].result.kind = "return"
               THEN CacheSet(served, generateCacheKey(req[p].page, req[p].limit),
                             req[p].result.value)
               ELSE served
  /\ Goto(p, Idle)
  /\ NoEffect /\ UNCHANGED <<lastListed, lastServed>>

(* --------------------------- read operations --------------------------- *)
\* lines 84-95
findOne(D, id) ==
  IF FindById(D, id) = {}
  THEN HttpException("La receta no existe!", NOT_FOUND)
  ELSE Returned(Populated(CHOOSE d \in FindById(D, id) : TRUE))

\* lines 101-103
getLatestRecipes(D, limit) == Returned(SkipLimit(SortCreatedAtDesc(D), 0, limit))

\* lines 111-122
searchByName(D, name) ==
  LET recipes == PopulatedAll(SortCreatedAtDesc({d \in D : RegexMatchI(name, d.name)}))
  IN IF Len(recipes) = 0
     THEN Returned([message |-> "No se encontraron recetas con ese nombre."])
     ELSE Returned(recipes)

\* variant: an empty match is an error, as in findOne
getRecipesByCategory_Throws(found) ==
  IF Len(found) = 0
  THEN HttpException("No hay recetas en esta categoria", NOT_FOUND)
  ELSE Returned(PopulatedAll(found))

\* lines 130-142; the query is unsorted, so the order is the store's choice
getRecipesByCategory(found) ==
  LET recipes == PopulatedAll(found)
  IN IF Len(recipes) = 0
     THEN Returned([message |-> "No hay recetas en esta categoria"])
     ELSE Returned(recipes)

\* The lookups read the documents only, and every store a run can reach it
\* also reaches without list calls: they are called while nothing is cached.
NothingCached == cacheKey = "" /\ DOMAIN cache = {}

FindOneCall(p, id) ==
  /\ req[p].pc = "idle"
  /\ UNCHANGED calls
  /\ NothingCached
  /\ Goto(p, [pc |-> "fo_find", op |-> "findOne", id |-> id, result |-> NoResult])
  /\ NoEffect /\ NoHistory

FindOneFind(p) ==
  /\ At(p, "findOne", "fo_find")
  /\ UNCHANGED calls
  /\ Goto(p, Finish(req[p], findOne(docs, req[p].id)))
  /\ NoEffect /\ NoHistory

GetLatestCall(p, limit) ==
  /\ req[p].pc = "idle"
  /\ UNCHANGED calls
  /\ NothingCached
  /\ Goto(p, [pc |-> "gl_find", op |-> "getLatestRecipes", limit |-> limit,
              result |-> NoResult])
  /\ NoEffect /\ NoHistory

GetLatestFind(p) ==
  /\ At(p, "getLatestRecipes", "gl_find")
  /\ UNCHANGED calls
  /\ Goto(p, Finish(req[p], getLatestRecipes(docs, req[p].limit)))
  /\ NoEffect /\ NoHistory

SearchCall(p, name) ==
  /\ req[p].pc = "idle"
  /\ UNCHANGED calls
  /\ NothingCached
  /\ Goto(p, [pc |-> "sn_find", op |-> "searchByName", name |-> name,
              result |-> NoResult])
  /\ NoEffect /\ NoHistory

SearchFind(p) ==
  /\ At(p, "searchByName", "sn_find")
  /\ UNCHANGED calls
  /\ Goto(p, Finish(req[p], searchByName(docs, req[p].name)))
  /\ NoEffect /\ NoHistory

ByCategoryCall(p, categoryId) ==
  /\ req[p].pc = "idle"
  /\ UNCHANGED calls
  /\ NothingCached
  /\ Goto(p, [pc |-> "gc_find", op |-> "getRecipesByCategory",
              categoryId |-> categoryId, result |-> NoResult])
  /\ NoEffect /\ NoHistory

ByCategoryFind(p) ==
  /\ At(p, "getRecipesByCategory", "gc_find")
  /\ UNCHANGED calls
  /\ \E order \in Orders({d \in docs : d.category = req[p].categoryId}) :
       Goto(p, Finish(req[p],
                      getRecipesByCategory(order)))
  /\ NoEffect /\ NoHistory

\* the pagination helper called on its own; it reads nothing of the service,
\* so it is exercised before the first counted call only
PaginateCall(p, totalItems, page, limit) ==
  /\ req[p].pc = "idle"
  /\ UNCHANGED calls
  /\ calls = 0
  /\ Goto(p, [pc |-> "pg_run", op |-> "paginateResults", totalItems |-> totalItems,
              page |-> page, limit |-> limit, result |-> NoResult])
  /\ NoEffect /\ NoHistory

PaginateRun(p) ==
  /\ At(p, "paginateResults", "pg_run")
  /\ UNCHANGED calls
  /\ Goto(p, Finish(req[p],
                    paginateResults(req[p].totalItems, req[p].page, req[p].limit)))
  /\ NoEffect /\ NoHistory

(* ------------------------------- create -------------------------------- *)
\* requests in flight that have yet to upload an image
Uploading ==
  {q \in Procs : \/ req[q].pc \in {"cr_del", "cr_clear", "cr_upload"}
                 \/ /\ req[q].op = "update" /\ req[q].pc # "done" /\ req[q].image
                    /\ req[q].pc \notin {"up_unlink", "up_persist"}}
CanUpload == uploads + Cardinality(Uploading) < MaxUploads
Creating == {q \in Procs : req[q].op = "create" /\ req[q].pc # "done"}
CanCreate == Cardinality(DOMAIN saves) + Cardinality(Creating) < MaxDocs

CreateFailed == HttpException("Error al crear la receta", INTERNAL_SERVER_ERROR)

\* lines 152-154: the tracked key is read; line 155 issues del when it is set
CreateCall(p, dto) ==
  /\ req[p].pc = "idle"
  /\ Counted
  /\ CanCreate /\ CanUpload
  /\ Goto(p, [pc |-> IF cacheKey # "" THEN "cr_del" ELSE "cr_upload",
              op |-> "create", dto |-> dto, key |-> cacheKey,
              cloudinaryResponse |-> UploadResponse(0), cacheAtCall |-> cache,
              result |-> NoResult])
  /\ served' = EmptyMap
  /\ NoEffect /\ UNCHANGED <<lastListed, lastServed>>

\* line 25: cacheManager.del
CreateDel(p) ==
  /\ At(p, "create", "cr_del")
  /\ UNCHANGED calls
  /\ cache' = deleteCacheByKey(cache, req[p].key)
  /\ Goto(p, [req[p] EXCEPT !.pc = "cr_clear"])
  /\ UNCHANGED <<docs, images, uploads, cacheKey, saves>> /\ NoHistory

\* line 156
CreateClear(p) ==
  /\ At(p, "create", "cr_clear")
  /\ UNCHANGED calls
  /\ cacheKey' = ""
  /\ Goto(p, [req[p] EXCEPT !.pc = "cr_upload"])
  /\ UNCHANGED <<docs, images, uploads, cache, saves>> /\ NoHistory

\* line 159: uploadImage succeeds, or throws into the catch of lines 173-179
CreateUpload(p) ==
  /\ At(p, "create", "cr_upload")
  /\ UNCHANGED calls
  /\ \/ /\ uploads' = uploads + 1
        /\ images' = images \cup {UploadResponse(uploads + 1).public_id}
        /\ Goto(p, [req[p] EXCEPT !.pc = "cr_unlink",
                                  !.cloudinaryResponse = UploadResponse(uploads + 1)])
     \/ /\ Goto(p, Finish(req[p], CreateFailed))
        /\ UNCHANGED <<uploads, images>>
  /\ UNCHANGED <<docs, cache, cacheKey, saves>> /\ NoHistory

\* lines 162-166
NewRecipe(id, dto, cloudinaryResponse) ==
  [_id |-> id, name |-> dto.name, category |-> dto.category,
   image |-> cloudinaryResponse.secure_url,
   public_id |-> cloudinaryResponse.public_id, createdAt |-> id]

\* line 167: save() is called and its promise dropped; lines 169-172 return
CreateSaveAndReturn(r, id) ==
  [doc |-> NewRecipe(id, r.dto, r.cloudinaryResponse), status |-> "pending",
   reply |-> Returned([message |-> "Receta creada correctamente",
                       name |-> r.dto.name])]

\* line 160: fse.unlink, then lines 162-172, or the catch
CreateUnlink(p) ==
  /\ At(p, "create", "cr_unlink")
  /\ UNCHANGED calls
  /\ \/ LET id == Cardinality(DOMAIN saves) + 1
            s == CreateSaveAndReturn(req[p], id)
        IN /\ saves' = CacheSet(saves, id, s)
           /\ Goto(p, Finish(req[p], s.reply))
     \/ /\ Goto(p, Finish(req[p], CreateFailed))
        /\ UNCHANGED saves
  /\ UNCHANGED <<docs, images, uploads, cache, cacheKey>> /\ NoHistory

\* the dropped save() promise settles: the document is inserted ...
SaveFulfilled(id) ==
  /\ id \in DOMAIN saves /\ saves[id].status = "pending"
  /\ UNCHANGED calls
  /\ docs' = docs \cup {saves[id].doc}
  /\ saves' = [saves EXCEPT ![id].status = "saved"]
  /\ UNCHANGED <<images, uploads, cache, cacheKey, req>> /\ NoHistory

\* ... or it rejects with nobody awaiting it: main.ts installs no handler for
\* unhandled rejections and the process is started with node's defaults, so the
\* rejection ends the process.  Handlers in flight are never answered and the
\* service's cacheKey goes with the process; the cache store keeps its entries
\* when it lives outside the process and loses them otherwise.
SaveRejected(id) ==
  /\ id \in DOMAIN saves /\ saves[id].status = "pending"
  /\ Running
  /\ UNCHANGED calls
  /\ saves' = [saves EXCEPT ![id].status = "failed"]
  /\ req' = [p \in Procs |-> Exited]
  /\ cacheKey' = ""
  /\ cache' \in {cache, EmptyMap}
  /\ UNCHANGED <<docs, images, uploads>> /\ NoHistory

(* ------------------------------- update -------------------------------- *)
\* the step after the cache has been dealt with (lines 206, 214)
UpdateAfterCache(r) == IF r.image THEN "up_delImg" ELSE "up_persist"

UpdateCall(p, id, dto, image) ==
  /\ req[p].pc = "idle"
  /\ Counted
  /\ image => CanUpload
  /\ Goto(p, [pc |-> "up_find", op |-> "update", id |-> id, updateRecipeDto |-> dto,
              image |-> image, recipeFound |-> {}, key |-> "",
              keyAtCall |-> cacheKey, newImage |-> UploadResponse(0), cacheAtCall |-> cache,
              imagesAtCall |-> images, result |-> NoResult])
  /\ served' = EmptyMap
  /\ NoEffect /\ UNCHANGED <<lastListed, lastServed>>

\* variant: the cache is invalidated before the recipe is looked up
UpdateFind_InvalidatesFirst(p) ==
  /\ At(p, "update", "up_find")
  /\ UNCHANGED calls
  /\ cache' = deleteCacheByKey(cache, cacheKey)
  /\ cacheKey' = ""
  /\ Goto(p, IF FindById(docs, req[p].id) = {}
             THEN Finish(req[p], HttpException("La receta no existe!", NOT_FOUND))
             ELSE [req[p] EXCEPT !.pc = UpdateAfterCache(req[p]),
                                 !.recipeFound = FindById(docs, req[p].id)])
  /\ UNCHANGED <<docs, images, uploads, saves>> /\ NoHistory

\* lines 196-199
UpdateFind(p) ==
  /\ At(p, "update", "up_find")
  /\ UNCHANGED calls
  /\ Goto(p, IF FindById(docs, req[p].id) = {}
             THEN Finish(req[p], HttpException("La receta no existe!", NOT_FOUND))
             ELSE [req[p] EXCEPT !.pc = "up_check",
                                 !.recipeFound = FindById(docs, req[p].id)])
  /\ NoEffect /\ NoHistory

\* line 201: the tracked key is read; line 202 issues del when it is set
\* variant: the write invalidates the key that was tracked when it was called
UpdateCheck_KeyAtCall(p) ==
  /\ At(p, "update", "up_check")
  /\ UNCHANGED calls
  /\ Goto(p, [req[p] EXCEPT !.key = req[p].keyAtCall,
                            !.pc = IF req[p].keyAtCall # "" THEN "up_del"
                                   ELSE UpdateAfterCache(req[p])])
  /\ NoEffect /\ NoHistory

\* lines 201-202: the tracked key is read after the lookup
UpdateCheck(p) ==
  /\ At(p, "update", "up_check")
  /\ UNCHANGED calls
  /\ Goto(p, [req[p] EXCEPT !.key = cacheKey,
                            !.pc = IF cacheKey # "" THEN "up_del"
                                   ELSE UpdateAfterCache(req[p])])
  /\ NoEffect /\ NoHistory

UpdateDel(p) ==
  /\ At(p, "update", "up_del")
  /\ UNCHANGED calls
  /\ cache' = deleteCacheByKey(cache, req[p].key)
  /\ Goto(p, [req[p] EXCEPT !.pc = "up_clear"])
  /\ UNCHANGED <<docs, images, uploads, cacheKey, saves>> /\ NoHistory

\* line 203
UpdateClear(p) ==
  /\ At(p, "update", "up_clear")
  /\ UNCHANGED calls
  /\ cacheKey' = ""
  /\ Goto(p, [req[p] EXCEPT !.pc = UpdateAfterCache(req[p])])
  /\ UNCHANGED <<docs, images, uploads, cache, saves>> /\ NoHistory

\* line 207: deleteImage(recipeFound.public_id); a failure leaves update
UpdateDeleteImage(p) ==
  /\ At(p, "update", "up_delImg")
  /\ UNCHANGED calls
  /\ \/ /\ images' = images \ {d.public_id : d \in req[p].recipeFound}
        /\ Goto(p, [req[p] EXCEPT !.pc = "up_upload"])
     \/ /\ Goto(p, Finish(req[p], Rejected("deleteImage")))
        /\ UNCHANGED images
  /\ UNCHANGED <<docs, uploads, cache, cacheKey, saves>> /\ NoHistory

\* line 208
UpdateUpload(p) ==
  /\ At(p, "update", "up_upload")
  /\ UNCHANGED calls
  /\ \/ /\ uploads' = uploads + 1
        /\ images' = images \cup {UploadResponse(uploads + 1).public_id}
        /\ Goto(p, [req[p] EXCEPT !.pc = "up_unlink",
                                  !.newImage = UploadResponse(uploads + 1)])
     \/ /\ Goto(p, Finish(req[p], Rejected("uploadImage")))
        /\ UNCHANGED <<uploads, images>>
  /\ UNCHANGED <<docs, cache, cacheKey, saves>> /\ NoHistory

\* variant: the asset id is not carried over
WithNewImage_UrlOnly(dto, newImage) ==
  [f \in DOMAIN dto \cup {"image"} |->
     IF f = "image" THEN newImage.secure_url ELSE dto[f]]

\* lines 210-211: the two fields are added to the dto
WithNewImage(dto, newImage) ==
  [f \in DOMAIN dto \cup {"image", "public_id"} |->
     IF f = "image" THEN newImage.secure_url
     ELSE IF f = "public_id" THEN newImage.public_id
     ELSE dto[f]]

\* line 209: fse.unlink, then lines 210-211
UpdateUnlink(p) ==
  /\ At(p, "update", "up_unlink")
  /\ UNCHANGED calls
  /\ \/ Goto(p, [req[p] EXCEPT
                   !.pc = "up_persist",
                   !.updateRecipeDto = WithNewImage(req[p].updateRecipeDto,
                                                    req[p].newImage)])
     \/ Goto(p, Finish(req[p], Rejected("unlink")))
  /\ NoEffect /\ NoHistory

\* findByIdAndUpdate(id, dto): the fields of the dto are set on the document
FindByIdAndUpdate(D, id, dto) ==
  {IF d._id = id
   THEN [f \in DOMAIN d |-> IF f \in DOMAIN dto THEN dto[f] ELSE d[f]]
   ELSE d : d \in D}

\* lines 216-219
UpdateReply(dto) ==
  Returned([message |-> "Receta actualizada correctamente",
            name |-> IF "name" \in DOMAIN dto THEN dto.name ELSE Undefined])

\* line 214, then the return
UpdatePersist(p) ==
  /\ At(p, "update", "up_persist")
  /\ UNCHANGED calls
  /\ \/ /\ docs' = FindByIdAndUpdate(docs, req[p].id, req[p].updateRecipeDto)
        /\ Goto(p, Finish(req[p], UpdateReply(req[p].updateRecipeDto)))
     \/ /\ Goto(p, Finish(req[p], Rejected("findByIdAndUpdate")))
        /\ UNCHANGED docs
  /\ UNCHANGED <<images, uploads, cache, cacheKey, saves>> /\ NoHistory

(* ------------------------------- remove -------------------------------- *)
RemoveCall(p, id) ==
  /\ req[p].pc = "idle"
  /\ Counted
  /\ Goto(p, [pc |-> "rm_find", op |-> "remove", id |-> id, recipeFound |-> {},
              key |-> "", keyAtCall |-> cacheKey, cacheAtCall |-> cache,
              docsAtCall |-> docs,
              imagesAtCall |-> images, result |-> NoResult])
  /\ served' = EmptyMap
  /\ NoEffect /\ UNCHANGED <<lastListed, lastServed>>

\* lines 230-233
RemoveFind(p) ==
  /\ At(p, "remove", "rm_find")
  /\ UNCHANGED calls
  /\ Goto(p, IF FindById(docs, req[p].id) = {}
             THEN Finish(req[p], HttpException("La receta no existe!", NOT_FOUND))
             ELSE [req[p] EXCEPT !.pc = "rm_check",
                                 !.recipeFound = FindById(docs, req[p].id)])
  /\ NoEffect /\ NoHistory

\* line 235
RemoveCheck(p) ==
  /\ At(p, "remove", "rm_check")
  /\ UNCHANGED calls
  /\ Goto(p, [req[p] EXCEPT !.key = cacheKey,
                            !.pc = IF cacheKey # "" THEN "rm_del" ELSE "rm_delImg"])
  /\ NoEffect /\ NoHistory

RemoveDel(p) ==
  /\ At(p, "remove", "rm_del")
  /\ UNCHANGED calls
  /\ cache' = deleteCacheByKey(cache, req[p].key)
  /\ Goto(p, [req[p] EXCEPT !.pc = "rm_clear"])
  /\ UNCHANGED <<docs, images, uploads, cacheKey, saves>> /\ NoHistory

\* line 237
RemoveClear(p) ==
  /\ At(p, "remove", "rm_clear")
  /\ UNCHANGED calls
  /\ cacheKey' = ""
  /\ Goto(p, [req[p] EXCEPT !.pc = "rm_delImg"])
  /\ UNCHANGED <<docs, images, uploads, cache, saves>> /\ NoHistory

\* variant: the asset is left in the image store
RemoveDeleteImage_Skipped(p) ==
  /\ At(p, "remove", "rm_delImg")
  /\ UNCHANGED calls
  /\ Goto(p, [req[p] EXCEPT !.pc = "rm_delDoc"])
  /\ NoEffect /\ NoHistory

\* line 240
RemoveDeleteImage(p) ==
  /\ At(p, "remove", "rm_delImg")
  /\ UNCHANGED calls
  /\ \/ /\ images' = images \ {d.public_id : d \in req[p].recipeFound}
        /\ Goto(p, [req[p] EXCEPT !.pc = "rm_delDoc"])
     \/ /\ Goto(p, Finish(req[p], Rejected("deleteImage")))
        /\ UNCHANGED images
  /\ UNCHANGED <<docs, uploads, cache, cacheKey, saves>> /\ NoHistory

\* lines 242-245
RemoveReply(recipeFound) ==
  Returned([message |-> "Receta eliminada correctamente",
            name |-> (CHOOSE d \in recipeFound : TRUE).name])

\* line 241: findByIdAndDelete, then the return
RemoveDeleteDoc(p) ==
  /\ At(p, "remove", "rm_delDoc")
  /\ UNCHANGED calls
  /\ \/ /\ docs' = docs \ FindById(docs, req[p].id)
        /\ Goto(p, Finish(req[p], RemoveReply(req[p].recipeFound)))
     \/ /\ Goto(p, Finish(req[p], Rejected("findByIdAndDelete")))
        /\ UNCHANGED docs
  /\ UNCHANGED <<images, uploads, cache, cacheKey, saves>> /\ NoHistory

(* --------------------------- specifications ---------------------------- *)
SeedDto(i) == IF i % 2 = 1 THEN [name |-> <<"T", "a">>, category |-> "c1"]
              ELSE [name |-> <<"a", "t">>, category |-> "c2"]

\* The service starts with an empty cache and no tracked key (line 19) over a
\* store that holds the recipes earlier create calls left in it.
Init ==
  /\ \E n \in 0..MaxDocs :
       /\ saves = [i \in 1..n |-> [CreateSaveAndReturn(
                                     [dto |-> SeedDto(i),
                                      cloudinaryResponse |-> UploadResponse(i)], i)
                                   EXCEPT !.status = "saved"]]
       /\ docs = {saves[i].doc : i \in 1..n}
       /\ images = 1..n
       /\ uploads = n
  /\ cache = EmptyMap
  /\ cacheKey = ""
  /\ calls = 0
  /\ req = [p \in Procs |-> Idle]
  /\ lastListed = ""
  /\ lastServed = ""
  /\ served = EmptyMap


AllIdle == \A q \in Procs : req[q].pc = "idle"

Call(p) ==
  \/ \E page \in Pages, limit \in Limits : FindAllCall(p, page, limit)
  \/ \E id \in Ids : FindOneCall(p, id)
  \/ \E limit \in Limits : GetLatestCall(p, limit)
  \/ \E name \in Patterns : SearchCall(p, name)
  \/ \E c \in CatIds : ByCategoryCall(p, c)
  \/ \E t \in 0..MaxItems, page \in Pages, limit \in Limits :
       PaginateCall(p, t, page, limit)
  \/ \E dto \in CreateDtos : CreateCall(p, dto)
  \/ \E id \in Ids, dto \in UpdateDtos, image \in BOOLEAN :
       UpdateCall(p, id, dto, image)
  \/ \E id \in Ids : RemoveCall(p, id)

Step(p) ==
  \/ FindAllGet(p) \/ FindAllCount(p) \/ FindAllFind(p)
  \/ FindAllSetCall(p) \/ FindAllSet(p)
  \/ FindOneFind(p) \/ GetLatestFind(p) \/ SearchFind(p) \/ ByCategoryFind(p)
  \/ PaginateRun(p)
  \/ CreateDel(p) \/ CreateClear(p) \/ CreateUpload(p) \/ CreateUnlink(p)
  \/ UpdateFind(p) \/ UpdateCheck(p) \/ UpdateDel(p) \/ UpdateClear(p)
  \/ UpdateDeleteImage(p) \/ UpdateUpload(p) \/ UpdateUnlink(p)
  \/ UpdatePersist(p)
  \/ RemoveFind(p) \/ RemoveCheck(p) \/ RemoveDel(p) \/ RemoveClear(p)
  \/ RemoveDeleteImage(p) \/ RemoveDeleteDoc(p)
  \/ Respond(p)

Settle == \E id \in DOMAIN saves : SaveFulfilled(id) \/ SaveRejected(id)

\* requests served one at a time; a dropped save() settles whenever it does
Next ==
  \/ \E p \in SeqProcs : (AllIdle /\ Call(p)) \/ Step(p)
  \/ Settle

Spec == Init /\ [][Next]_vars

\* Overlapping requests: the server starts a handler whenever a request arrives
\* and runs each from one await to the next, in any order.
ConcPages == 1..MaxPage
ConcLimits == {1}

ConcCall(p) ==
  /\ calls < MaxConcCalls
  /\ \/ \E page \in ConcPages, limit \in ConcLimits : FindAllCall(p, page, limit)
     \/ \E dto \in CreateDtos : CreateCall(p, dto)
     \/ \E id \in Ids, dto \in UpdateDtos, image \in BOOLEAN :
          UpdateCall(p, id, dto, image)
     \/ \E id \in Ids : RemoveCall(p, id)

ConcStep(p) ==
  \/ FindAllGet(p) \/ FindAllCount(p) \/ FindAllFind(p)
  \/ FindAllSetCall(p) \/ FindAllSet(p)
  \/ CreateDel(p) \/ CreateClear(p) \/ CreateUpload(p) \/ CreateUnlink(p)
  \/ UpdateFind(p) \/ UpdateCheck(p) \/ UpdateDel(p) \/ UpdateClear(p)
  \/ UpdateDeleteImage(p) \/ UpdateUpload(p) \/ UpdateUnlink(p)
  \/ UpdatePersist(p)
  \/ RemoveFind(p) \/ RemoveCheck(p) \/ RemoveDel(p) \/ RemoveClear(p)
  \/ RemoveDeleteImage(p) \/ RemoveDeleteDoc(p)
  \/ Respond(p)

ConcNext ==
  \/ \E p \in Procs : ConcCall(p) \/ ConcStep(p)
  \/ Settle

ConcSpec == Init /\ [][ConcNext]_vars

(* ------------------------------ properties ----------------------------- *)
Done(p, op) == req[p].op = op /\ req[p].pc = "done"
\* the handler of p took a step (the process did not end under it)
Stepped(p) == req'[p] # req[p] /\ req'[p].pc # "exited"
PageNotFound == [kind |-> "throw", status |-> 404, message |-> "Página no encontrada"]
RecipeNotFound == [kind |-> "throw", status |-> 404, message |-> "La receta no existe!"]
IsNotFound(result) == result.kind = "throw" /\ result.status = 404
\* the least n with n * L >= T, for L >= 1
Ceil(T, L) == CHOOSE n \in 0..T : n * L >= T /\ (n = 0 \/ (n - 1) * L < T)
\* a create, update or remove that got past its existence check
WriteRan(p) ==
  /\ req[p].pc = "done" /\ req[p].op \in CreateUpdateRemove
  /\ ~IsNotFound(req[p].result)

\* C1: with L >= 1, paginateResults(T, P, L) fails NotFound when P < 1 or
\* P > ceil(T/L) and otherwise returns {T, ceil(T/L), P}; findAll fails NotFound
\* exactly when its page is outside [1, ceil(count/L)], so every page of an empty
\* collection fails.
C1_PageValidation ==
  \A p \in Procs :
    /\ (Done(p, "paginateResults") /\ req[p].limit >= 1) =>
         LET T == req[p].totalItems
             P == req[p].page
             totalPages == Ceil(T, req[p].limit)
         IN IF P < 1 \/ P > totalPages
            THEN req[p].result = PageNotFound
            ELSE req[p].result =
                   [kind |-> "return",
                    value |-> [totalItems |-> T, totalPages |-> <<"fin", totalPages>>,
                               currentPage |-> P]]
    /\ (Done(p, "findAll") /\ req[p].limit >= 1) =>
         LET P == req[p].page
             totalPages == Ceil(req[p].totalRecipes, req[p].limit)
         IN /\ (P < 1 \/ P > totalPages) <=> req[p].result = PageNotFound
            /\ (P >= 1 /\ P <= totalPages) <=> req[p].result.kind = "return"
            /\ req[p].totalRecipes = 0 => req[p].result = PageNotFound

\* C1 witness: a page count that is rounded up (3 items, 2 per page, page 2)
C1_Witness ==
  \E p \in Procs :
    /\ Done(p, "paginateResults")
    /\ req[p].totalItems = 3 /\ req[p].limit = 2 /\ req[p].page = 2
    /\ req[p].result.kind = "return"

\* C2 as claimed: once a write got past its existence check, the entry of the
\* last page that findAll served is gone and every other entry is as it was.
C2_LastServedInvalidated ==
  \A p \in Procs :
    WriteRan(p) =>
      /\ lastServed \notin DOMAIN cache
      /\ \A k \in DOMAIN req[p].cacheAtCall \ {lastServed} :
           k \in DOMAIN cache /\ cache[k] = req[p].cacheAtCall[k]

\* C2 amended: once a write got past its existence check, the cache is the cache
\* of before the write without the entry under the key of the most recent findAll
\* call, whether that call returned a payload or failed NotFound.
C2_LastListedInvalidated ==
  \A p \in Procs :
    WriteRan(p) =>
      /\ lastListed \notin DOMAIN cache
      /\ DOMAIN cache = DOMAIN req[p].cacheAtCall \ {lastListed}
      /\ \A k \in DOMAIN cache : cache[k] = req[p].cacheAtCall[k]

\* C2 witness: a write deleted the entry of the last listed key and left another
C2_Witness ==
  \E p \in Procs :
    /\ WriteRan(p)
    /\ lastListed \in DOMAIN req[p].cacheAtCall
    /\ lastListed \notin DOMAIN cache
    /\ DOMAIN cache # {}

\* C3: every findAll counts the stored recipes, cache hit or not, and a page
\* outside [1, ceil(count/limit)] makes it fail NotFound, whether or not the cache
\* held an entry for its key.
C3_ValidatedOnEveryCall ==
  [][\A p \in Procs :
       (At(p, "findAll", "fa_count") /\ Stepped(p)) =>
         /\ req'[p].totalRecipes = Cardinality(docs)
         /\ ( \/ req[p].page < 1
              \/ /\ req[p].limit >= 1
                 /\ req[p].page > Ceil(Cardinality(docs), req[p].limit) )
            => /\ req'[p].pc = "done"
               /\ req'[p].result = PageNotFound]_vars

\* C3 witness: a cache hit on a page that no longer exists
C3_Witness ==
  \E p \in Procs :
    /\ Done(p, "findAll") /\ req[p].cacheData # {}
    /\ req[p].result = PageNotFound

\* C4: a findAll that returns a payload for a (page, limit) already served since
\* the last create, update or remove call returns that same payload.
C4_RepeatedListIdentical ==
  \A p \in Procs :
    LET k == generateCacheKey(req[p].page, req[p].limit) IN
    (Done(p, "findAll") /\ req[p].result.kind = "return" /\ k \in DOMAIN served)
      => req[p].result.value = served[k]

\* C4 witness: the same payload again although the store has grown since
C4_Witness ==
  \E p \in Procs :
    /\ Done(p, "findAll") /\ req[p].result.kind = "return"
    /\ generateCacheKey(req[p].page, req[p].limit) \in DOMAIN served
    /\ req[p].result.value.totalRecipes # Cardinality(docs)
    /\ req[p].totalRecipes = Cardinality(docs)

\* C5 as claimed: a create whose save failed answered the generic failure
\* 'Error al crear la receta', never the success message.
C5_SaveFailureReported ==
  \A id \in DOMAIN saves :
    saves[id].status = "failed" =>
      /\ saves[id].reply.kind = "throw"
      /\ saves[id].reply.message = "Error al crear la receta"

\* C6 as claimed: when create returns its success message the store holds the
\* new recipe with the URL and asset id of that create's upload.
C6_SuccessMeansStored ==
  \A p \in Procs :
    (Done(p, "create") /\ req[p].result.kind = "return") =>
      /\ req[p].result.value.name = req[p].dto.name
      /\ \E d \in docs :
           /\ d.name = req[p].dto.name
           /\ d.image = req[p].cloudinaryResponse.secure_url
           /\ d.public_id = req[p].cloudinaryResponse.public_id

\* C7: update and remove of an id that no recipe has fail NotFound at their first
\* step, and neither that step nor the call touches the cache, the tracked key,
\* the image store or the documents.
C7_NotFoundComesFirst ==
  [][\A p \in Procs :
       /\ ( /\ req[p].op \in {"update", "remove"}
            /\ req[p].pc \in {"up_find", "rm_find"}
            /\ Stepped(p)
            /\ ~\E d \in docs : d._id = req[p].id )
          => /\ req'[p].pc = "done" /\ req'[p].result = RecipeNotFound
             /\ UNCHANGED <<cache, cacheKey, images, uploads, docs, saves>>
       /\ ( /\ req[p].pc = "idle"
            /\ req'[p].op \in {"update", "remove"} )
          => UNCHANGED <<cache, cacheKey, images, uploads, docs, saves>>
       /\ ( /\ req[p].op \in {"update", "remove"} /\ req[p].pc # "done"
            /\ req'[p].pc = "done" /\ IsNotFound(req'[p].result) )
          => req[p].pc \in {"up_find", "rm_find"}]_vars

\* C7 witness: update failed NotFound and the tracked entry is still cached
C7_Witness ==
  \E p \in Procs :
    /\ Done(p, "update") /\ req[p].result = RecipeNotFound
    /\ cacheKey # "" /\ cacheKey \in DOMAIN cache

\* C8: remove of an existing recipe has cleared the tracked key before it deletes
\* the asset and has deleted the asset before it deletes the document; when it
\* returns its confirmation, which names the recipe, the document and its asset
\* are gone and every other document and asset is still there.
C8_RemoveOrder ==
  \A p \in Procs :
    req[p].op = "remove" =>
      LET found == req[p].recipeFound
          assets == {d.public_id : d \in found}
          present == \E d \in docs : d._id = req[p].id
      IN /\ req[p].pc = "rm_delImg" =>
              /\ cacheKey = "" /\ req[p].key \notin DOMAIN cache
              /\ present
         /\ req[p].pc = "rm_delDoc" =>
              /\ cacheKey = "" /\ assets \cap images = {}
              /\ present
         /\ (req[p].pc = "done" /\ req[p].result.kind = "return") =>
              /\ \E d \in found :
                   req[p].result.value =
                     [message |-> "Receta eliminada correctamente", name |-> d.name]
              /\ ~present /\ assets \cap images = {}
              /\ (req[p].docsAtCall \ found) \subseteq docs
              /\ (req[p].imagesAtCall \ assets) \subseteq images

\* C8 witness: remove confirmed while its asset was in the image store at the call
\* and another recipe is left
C8_Witness ==
  \E p \in Procs :
    /\ Done(p, "remove") /\ req[p].result.kind = "return"
    /\ {d.public_id : d \in req[p].recipeFound} \subseteq req[p].imagesAtCall
    /\ req[p].cacheAtCall # cache
    /\ docs # {}

\* C9: every stored recipe's URL and asset id come from one upload response; an
\* update with an image has deleted the old asset before it uploads and persists
\* both new fields together; an update without an image leaves the image store
\* and the recipe's URL and asset id as they were.
C9_ImageFieldsTogether ==
  /\ \A d \in docs : d.image = <<"https://img", d.public_id>>
  /\ \A p \in Procs :
       req[p].op = "update" =>
         LET old == {d.public_id : d \in req[p].recipeFound}
             now == {d \in docs : d._id = req[p].id}
         IN /\ req[p].pc \in {"up_upload", "up_unlink"} => old \cap images = {}
            /\ (req[p].pc \in {"up_persist", "done"} /\ req[p].image
                /\ req[p].result.kind \in {"none", "return"}) =>
                 /\ old \cap images = {}
                 /\ req[p].newImage.public_id \in images
                 /\ req[p].newImage.public_id \notin old
            /\ (req[p].pc = "done" /\ req[p].result.kind = "return"
                /\ req[p].image) =>
                 \A d \in now : /\ d.public_id = req[p].newImage.public_id
                                /\ d.image = req[p].newImage.secure_url
            /\ (req[p].pc = "done" /\ ~req[p].image) =>
                 /\ images = req[p].imagesAtCall
                 /\ \A d \in now : \A e \in req[p].recipeFound :
                      d.image = e.image /\ d.public_id = e.public_id

\* C9 witness: an update with an image replaced the recipe's asset
C9_Witness ==
  \E p \in Procs :
    /\ Done(p, "update") /\ req[p].image /\ req[p].result.kind = "return"
    /\ \E d \in docs : d._id = req[p].id /\ d.public_id = req[p].newImage.public_id
    /\ \E e \in req[p].recipeFound :
         e.public_id \in req[p].imagesAtCall /\ e.public_id \notin images

Matching(name) == {d \in docs : RegexMatchI(name, d.name)}
InCategory(c) == {d \in docs : d.category = c}
Elements(s) == {s[i] : i \in DOMAIN s}

\* C10: findOne fails NotFound for an id no recipe has; searchByName and
\* getRecipesByCategory return a no-results message when nothing matches and
\* the matching recipes otherwise, and never fail.
C10_EmptyResults ==
  [][\A p \in Procs :
       /\ (At(p, "findOne", "fo_find") /\ Stepped(p)) =>
            IF \E d \in docs : d._id = req[p].id
            THEN /\ req'[p].result.kind = "return"
                 /\ req'[p].result.value._id = req[p].id
            ELSE req'[p].result = RecipeNotFound
       /\ (At(p, "searchByName", "sn_find") /\ Stepped(p)) =>
            /\ req'[p].result.kind = "return"
            /\ IF Matching(req[p].name) = {}
               THEN req'[p].result.value =
                      [message |-> "No se encontraron recetas con ese nombre."]
               ELSE /\ Len(req'[p].result.value) = Cardinality(Matching(req[p].name))
                    /\ {r._id : r \in Elements(req'[p].result.value)}
                         = {d._id : d \in Matching(req[p].name)}
       /\ (At(p, "getRecipesByCategory", "gc_find") /\ Stepped(p)) =>
            /\ req'[p].result.kind = "return"
            /\ IF InCategory(req[p].categoryId) = {}
               THEN req'[p].result.value =
                      [message |-> "No hay recetas en esta categoria"]
               ELSE /\ Len(req'[p].result.value)
                         = Cardinality(InCategory(req[p].categoryId))
                    /\ {r._id : r \in Elements(req'[p].result.value)}
                         = {d._id : d \in InCategory(req[p].categoryId)}]_vars

\* C10 witness: a category without recipes answered with the message while the
\* store holds recipes
C10_Witness ==
  \E p \in Procs :
    /\ Done(p, "getRecipesByCategory")
    /\ InCategory(req[p].categoryId) = {}
    /\ req[p].result = [kind |-> "return",
                        value |-> [message |-> "No hay recetas en esta categoria"]]
    /\ docs # {}

Min(a, b) == IF a <= b THEN a ELSE b
\* the recipe with i - 1 newer recipes in the store
NewestFirstAt(i) ==
  CHOOSE d \in docs : Cardinality({e \in docs : e.createdAt > d.createdAt}) = i - 1
\* data is positions (P-1)*L+1 .. min(P*L, n) of the stored recipes, newest
\* first, each with its category joined and without its asset id
IsPageOf(data, P, L, n) ==
  LET lo == (P - 1) * L + 1
      hi == Min(P * L, n)
  IN /\ Len(data) = (IF hi >= lo THEN hi - lo + 1 ELSE 0)
     /\ \A k \in 1..Len(data) :
          /\ lo + k - 1 <= Cardinality(docs)
          /\ data[k]._id = NewestFirstAt(lo + k - 1)._id
          /\ data[k].category = CategoryDoc(NewestFirstAt(lo + k - 1).category)
          /\ "public_id" \notin DOMAIN data[k]
\* the query of a findAll that missed the cache answers
Queried(p) ==
  At(p, "findAll", "fa_find") /\ req'[p].pc = "fa_setcall" /\ req[p].limit >= 1
\* a findAll that missed the cache has returned {page, totalPages, total, data}
\* with the counted total and the queried data, and the cache holds that payload
\* under the key of (page, limit)
MissPayloadCached ==
  \A p \in Procs :
    (Done(p, "findAll") /\ req[p].cacheData = {} /\ req[p].limit >= 1
       /\ req[p].result.kind = "return") =>
      LET payload == [page |-> req[p].page,
                      totalPages |-> <<"fin", Ceil(req[p].totalRecipes, req[p].limit)>>,
                      totalRecipes |-> req[p].totalRecipes,
                      data |-> req[p].recipes]
          key == generateCacheKey(req[p].page, req[p].limit)
      IN /\ req[p].result.value = payload
         /\ req[p].page >= 1
         /\ req[p].page <= Ceil(req[p].totalRecipes, req[p].limit)
         /\ key \in DOMAIN cache /\ cache[key] = payload

\* C11: a findAll that misses the cache on a valid page returns and caches under
\* the key of (page, limit) the payload {page, totalPages, total, data} whose
\* data is positions (page-1)*limit+1 .. min(page*limit, total) of the recipes
\* newest first, total being the count the payload reports.
C11_PageOfCountedTotal ==
  /\ []MissPayloadCached
  /\ [][\A p \in Procs :
         Queried(p) =>
           IsPageOf(req'[p].recipes, req[p].page, req[p].limit,
                    req[p].totalRecipes)]_vars

\* What findAll does on a miss whatever is stored in between: data is positions
\* (page-1)*limit+1 .. min(page*limit, N) of the recipes newest first, N being
\* the number of recipes in the store when the query runs; N is the reported
\* total, and C11 holds of the call, unless a save() that create did not await
\* lands between the count and the query.
PageOfStoredRecipes ==
  /\ []MissPayloadCached
  /\ [][\A p \in Procs :
         Queried(p) =>
           /\ IsPageOf(req'[p].recipes, req[p].page, req[p].limit,
                       Cardinality(docs))
           /\ req[p].totalRecipes = Cardinality(docs) =>
                IsPageOf(req'[p].recipes, req[p].page, req[p].limit,
                         req[p].totalRecipes)]_vars

\* page 2 of two recipes, one per page, missed the cache, returned the older
\* recipe and left the payload in the cache
SecondPageServed ==
  \E p \in Procs :
    /\ Done(p, "findAll") /\ req[p].cacheData = {}
    /\ req[p].page = 2 /\ req[p].limit = 1 /\ req[p].totalRecipes = 2
    /\ req[p].result.kind = "return"
    /\ Len(req[p].result.value.data) = 1
    /\ req[p].result.value.data[1]._id = 1
    /\ cache[generateCacheKey(2, 1)] = req[p].result.value

\* a write reads the tracked key: create as it is called, update and remove
\* after their lookup
ReadsKey(p) ==
  \/ req[p].pc = "idle" /\ req'[p].op = "create"
  \/ At(p, "update", "up_check") /\ Stepped(p)
  \/ At(p, "remove", "rm_check") /\ Stepped(p)
\* a write's cacheManager.del answers
Invalidates(p) ==
  /\ req[p].op \in CreateUpdateRemove
  /\ req[p].pc \in {"cr_del", "up_del", "rm_del"}
  /\ Stepped(p)

\* C12: with overlapping requests the tracked key is one field for all of them:
\* it is empty or the key of the most recent findAll call of any request, a
\* write reads it when it gets to its invalidation and deletes the entry under
\* the key it read and no other, so an entry under the key that was tracked when
\* the write was called survives once another request has replaced the key.
C12_InvalidationFollowsSharedKey ==
  /\ [](cacheKey \in {"", lastListed})
  /\ [][\A p \in Procs :
         /\ ReadsKey(p) => req'[p].key = cacheKey
         /\ Invalidates(p) =>
              /\ DOMAIN cache' = DOMAIN cache \ {req[p].key}
              /\ \A k \in DOMAIN cache' : cache'[k] = cache[k]]_vars

\* C12 witness: an update or remove was called while the key of a cached page
\* was tracked, a findAll of another request replaced the key while the write
\* was looking its recipe up, and the write's invalidation has fired on the other
\* key: the page cached before the write is still in the cache
C12_Witness ==
  \E p \in Procs : \E q \in Procs \ {p} :
    /\ req[p].op \in {"update", "remove"}
    /\ req[p].pc \in {"up_clear", "rm_clear"}
    /\ req[p].keyAtCall \in DOMAIN req[p].cacheAtCall
    /\ req[p].key # req[p].keyAtCall
    /\ req[q].op = "findAll" /\ req[q].pc # "done"
    /\ req[p].key = generateCacheKey(req[q].page, req[q].limit)
    /\ req[p].keyAtCall \in DOMAIN cache
    /\ cache[req[p].keyAtCall] = req[p].cacheAtCall[req[p].keyAtCall]

\* C13: with overlapping requests, every cache entry is stored under the key
\* generated for some (page, limit) and holds the payload computed for that page
\* and limit: its page is that page and its data has at most limit items; there
\* is no entry under the empty key or under the key of another request's page.
C13_CacheEntriesMatchKeys ==
  \A k \in DOMAIN cache :
    \E page \in Pages, limit \in Limits :
      /\ k = generateCacheKey(page, limit)
      /\ cache[k].page = page
      /\ Len(cache[k].data) <= limit

====
